---- MODULE Spec2Model ----
(***************************************************************************)
(* Model of the first-fit heap allocator of malloc-and-free.c: init_heap,  *)
(* malloc and free over the block chain kept inside heap_area.             *)
(*                                                                         *)
(* Addresses are byte offsets from heap_area; NULL is a value that is no   *)
(* offset.  heap maps the offset of every block header of the chain to the *)
(* header's fields; a header absorbed by a merge, and every header other   *)
(* than the first after init_heap, is ordinary payload from then on and is *)
(* dropped from heap.                                                      *)
(*                                                                         *)
(* size_t values: a value v below 2^63 is the integer v, a value v from    *)
(* 2^63 on is the integer v - 2^64 (the two's complement reading of the    *)
(* same bits), so that SIZE_MAX is -1.  Sums and the mask of AlignSize are *)
(* then exact modulo 2^64 and comparisons are the unsigned ones, ULE.      *)
(***************************************************************************)
EXTENDS Integers, Sequences, FiniteSets, TLC

HEAP_SIZE == 65536

HEADER_SIZE == 24

MIN_SPLIT == 8

NULL == -1

\* Most allocations the caller holds at a time.
MaxLive == 2

\* The request sizes the caller draws from; negative ones are the sizes
\* from 2^63 on: -1 is SIZE_MAX, -9 is SIZE_MAX - 8.
Sizes == {0, 15993, 16000, 40000, 65480, 65512, -1, -9}

VARIABLES heap, free_list, live, order, below, callOp, callArg, callRet, written,
          fault, invalidated, pair, trip

vars == <<heap, free_list, live, order, below, callOp, callArg, callRet, written,
          fault, invalidated, pair, trip>>

----------------------------------------------------------------------------
\* size_t arithmetic

\* a <= b on size_t values (unsigned).
ULE(a, b) == IF (a >= 0) = (b >= 0) THEN a <= b ELSE a >= 0

\* size = (size + 7) & ~7
AlignSizeNoMask(size) == size + 7

AlignSize(size) == (size + 7) - ((size + 7) % 8)

----------------------------------------------------------------------------
\* malloc

\* current->free && current->size >= size
FitsAny(h, size) == ULE(size, h.size)

FitsStrict(h, size) == h.free = 1 /\ ~ULE(h.size, size)

FitsFreeOnly(h, size) == h.free = 1

Fits(h, size) == h.free = 1 /\ ULE(size, h.size)

\* current->size >= size + HEADER_SIZE + 8
ShouldSplitLoose(h, size) == ULE(size, h.size)

ShouldSplitStrict(h, size) == ~ULE(h.size, size + HEADER_SIZE + MIN_SPLIT)

ShouldSplit(h, size) == ULE(size + HEADER_SIZE + MIN_SPLIT, h.size)

\* (char *)current + HEADER_SIZE + size
NewBlockAddrNoHeader(current, size) == current + size

NewBlockAddr(current, size) == current + HEADER_SIZE + size

\* current->size - size - HEADER_SIZE
NewBlockSizeKeepHeader(h, size) == h.size - size

NewBlockSize(h, size) == h.size - size - HEADER_SIZE

\* The heap after the split of the block at current.
SplitBlockBackLink(hp, current, size) ==
    LET nb == NewBlockAddr(current, size)
        new_block == [size |-> NewBlockSize(hp[current], size),
                      next |-> current,
                      free |-> 1]
    IN  (nb :> new_block) @@
        [hp EXCEPT ![current].size = size, ![current].next = nb]

SplitBlock(hp, current, size) ==
    LET nb == NewBlockAddr(current, size)
        new_block == [size |-> NewBlockSize(hp[current], size),
                      next |-> hp[current].next,
                      free |-> 1]
    IN  (nb :> new_block) @@
        [hp EXCEPT ![current].size = size, ![current].next = nb]

\* The body of the if of the search loop: the block at current is taken.
TakeBlock(hp, current, size) ==
    LET split == ShouldSplit(hp[current], size)
        h1 == IF split THEN SplitBlock(hp, current, size) ELSE hp
    IN  [heap    |-> [h1 EXCEPT ![current].free = 0],
         ret     |-> current + HEADER_SIZE,
         written |-> IF split THEN <<NewBlockAddr(current, size), current>>
                              ELSE <<current>>,
         fault   |-> FALSE]

\* The search loop of malloc from current on, size already aligned.  fault
\* tells that a null pointer was dereferenced: while (current) is tested
\* before current->free is read.
RECURSIVE MallocLoopDerefFirst(_, _, _)
MallocLoopDerefFirst(hp, current, size) ==
    IF current = NULL
    THEN [heap |-> hp, ret |-> NULL, written |-> <<>>, fault |-> TRUE]
    ELSE IF Fits(hp[current], size)
         THEN TakeBlock(hp, current, size)
         ELSE MallocLoopDerefFirst(hp, hp[current].next, size)

RECURSIVE MallocLoop(_, _, _)
MallocLoop(hp, current, size) ==
    IF current = NULL
    THEN [heap |-> hp, ret |-> NULL, written |-> <<>>, fault |-> FALSE]
    ELSE IF Fits(hp[current], size)
         THEN TakeBlock(hp, current, size)
         ELSE MallocLoop(hp, hp[current].next, size)

MallocResult(hp, fl, size) == MallocLoop(hp, fl, AlignSize(size))

----------------------------------------------------------------------------
\* free

\* current->free && current->next && current->next->free
CanMergeNextFree(hp, current) ==
    /\ hp[current].next # NULL
    /\ hp[hp[current].next].free = 1

CanMerge(hp, current) ==
    /\ hp[current].free = 1
    /\ hp[current].next # NULL
    /\ hp[hp[current].next].free = 1

\* current->size += HEADER_SIZE + current->next->size;
\* current->next = current->next->next;
MergeNextNoHeader(hp, current) ==
    LET nx == hp[current].next
    IN  [a \in DOMAIN hp \ {nx} |->
           IF a = current
           THEN [hp[a] EXCEPT !.size = hp[a].size + hp[nx].size,
                              !.next = hp[nx].next]
           ELSE hp[a]]

MergeNext(hp, current) ==
    LET nx == hp[current].next
    IN  [a \in DOMAIN hp \ {nx} |->
           IF a = current
           THEN [hp[a] EXCEPT !.size = hp[a].size + HEADER_SIZE + hp[nx].size,
                              !.next = hp[nx].next]
           ELSE hp[a]]

\* The coalescing loop of free from current on; w is the log of the headers
\* written so far.
RECURSIVE CoalesceAdvance(_, _, _)
CoalesceAdvance(hp, current, w) ==
    IF current = NULL
    THEN [heap |-> hp, written |-> w, fault |-> FALSE]
    ELSE IF CanMerge(hp, current)
         THEN CoalesceAdvance(MergeNext(hp, current), hp[hp[current].next].next,
                              Append(w, current))
         ELSE CoalesceAdvance(hp, hp[current].next, w)

CoalesceNone(hp, current, w) == [heap |-> hp, written |-> w, fault |-> FALSE]

RECURSIVE Coalesce(_, _, _)
Coalesce(hp, current, w) ==
    IF current = NULL
    THEN [heap |-> hp, written |-> w, fault |-> FALSE]
    ELSE IF CanMerge(hp, current)
         THEN Coalesce(MergeNext(hp, current), current, Append(w, current))
         ELSE Coalesce(hp, hp[current].next, w)

\* block->free = 1 where block is no header of the chain writes outside it.
MarkFree(hp, block) ==
    IF block \in DOMAIN hp THEN [hp EXCEPT ![block].free = 1] ELSE hp

FreeResultNoNullCheck(hp, fl, ptr) ==
    LET block == ptr - HEADER_SIZE
    IN  Coalesce(MarkFree(hp, block), fl, <<block>>)

FreeResult(hp, fl, ptr) ==
    IF ptr = NULL
    THEN [heap |-> hp, written |-> <<>>, fault |-> FALSE]
    ELSE LET block == ptr - HEADER_SIZE
         IN  Coalesce(MarkFree(hp, block), fl, <<block>>)

----------------------------------------------------------------------------
\* The caller's view: live is the sequence, in allocation order, of the
\* pointers malloc returned and free has not been given since, each with the
\* aligned size it was requested with.  invalidated is the set of pointers
\* that were live when the last call, an init_heap, reset the chain.  order
\* tells how the caller has
\* released since init_heap: "none" (no release), "lifo" (every release was of
\* the most recently allocated live pointer) or "other".  below tells that at
\* every malloc since init_heap the live blocks and the request, each counted
\* as HEADER_SIZE plus its aligned size, stayed below HEAP_SIZE in total.

RECURSIVE Outstanding(_)
Outstanding(s) ==
    IF s = <<>> THEN 0
    ELSE HEADER_SIZE + Head(s).req + Outstanding(Tail(s))

\* A request from 2^63 on is above HEAP_SIZE by itself.
RequestBelowCapacity(s, n) ==
    /\ n >= 0
    /\ Outstanding(s) + HEADER_SIZE + AlignSize(n) < HEAP_SIZE

LivePtrs == {live[i].ptr : i \in 1..Len(live)}

\* pair follows the calls init_heap, malloc, malloc, free, free where both
\* malloc succeed and the two free release their two pointers, in either
\* order: stage counts the calls made after init_heap, a and b are the two
\* pointers, asize and bsize their blocks' sizes, rest the size of the free
\* node after the second block (NULL when there is none), first the pointer
\* released first.  Any other call ends it (stage -1).
PairOff ==
    [stage |-> -1, a |-> NULL, asize |-> 0, b |-> NULL, bsize |-> 0,
     rest |-> NULL, first |-> NULL]

PairAfterMalloc(r) ==
    IF r.ret = NULL THEN PairOff
    ELSE LET blk == r.ret - HEADER_SIZE
         IN  IF pair.stage = 0
             THEN [PairOff EXCEPT !.stage = 1, !.a = r.ret,
                                  !.asize = r.heap[blk].size]
             ELSE IF pair.stage = 1
             THEN [pair EXCEPT !.stage = 2, !.b = r.ret,
                               !.bsize = r.heap[blk].size,
                               !.rest = IF r.heap[blk].next = NULL THEN NULL
                                        ELSE r.heap[r.heap[blk].next].size]
             ELSE PairOff

PairAfterFree(p) ==
    IF pair.stage = 2 /\ p \in {pair.a, pair.b}
    THEN [pair EXCEPT !.stage = 3, !.first = p]
    ELSE IF pair.stage = 3 /\ p \in {pair.a, pair.b} \ {pair.first}
    THEN [pair EXCEPT !.stage = 4]
    ELSE PairOff

\* trip follows a successful malloc(n) that returned ptr from the heap pre
\* (stage "held"), the free of ptr (stage "back") and the next malloc(n)
\* (stage "again"), with nothing but failing malloc calls in between; failed
\* tells that there was one.  Any other call ends it (stage "off").
TripOff == [stage |-> "off", pre |-> <<>>, n |-> 0, ptr |-> NULL, failed |-> FALSE]

TripAfterMalloc(n, r) ==
    IF r.ret = NULL
    THEN IF trip.stage \in {"held", "again"}
         THEN [trip EXCEPT !.stage = "held", !.failed = TRUE]
         ELSE IF trip.stage = "back" THEN [trip EXCEPT !.failed = TRUE]
         ELSE TripOff
    ELSE IF trip.stage = "back" /\ n = trip.n
         THEN [trip EXCEPT !.stage = "again"]
         ELSE [stage |-> "held", pre |-> heap, n |-> n, ptr |-> r.ret,
               failed |-> FALSE]

TripAfterFree(p) ==
    IF trip.stage \in {"held", "again"} /\ p = trip.ptr
    THEN [trip EXCEPT !.stage = "back"]
    ELSE TripOff

RemovePtr(s, p) == SelectSeq(s, LAMBDA e : e.ptr # p)

Init ==
    /\ heap = <<>>
    /\ free_list = NULL
    /\ live = <<>>
    /\ order = "none"
    /\ below = TRUE
    /\ callOp = "none"
    /\ callArg = NULL
    /\ callRet = NULL
    /\ written = <<>>
    /\ fault = FALSE
    /\ invalidated = {}
    /\ pair = PairOff
    /\ trip = TripOff

\* free_list->size = HEAP_SIZE - HEADER_SIZE
InitBlockSizeWhole == HEAP_SIZE

InitBlockSize == HEAP_SIZE - HEADER_SIZE

InitHeap ==
    /\ free_list' = 0
    /\ heap' = (0 :> [size |-> InitBlockSize, next |-> NULL, free |-> 1])
    /\ live' = <<>>
    /\ order' = "none"
    /\ below' = TRUE
    /\ callOp' = "init_heap"
    /\ callArg' = NULL
    /\ callRet' = NULL
    /\ written' = <<0>>
    /\ fault' = FALSE
    /\ invalidated' = LivePtrs
    /\ pair' = [PairOff EXCEPT !.stage = 0]
    /\ trip' = TripOff

Malloc(n) ==
    /\ Len(live) < MaxLive
    /\ LET r == MallocResult(heap, free_list, n)
       IN  /\ heap' = r.heap
           /\ callRet' = r.ret
           /\ written' = r.written
           /\ fault' = r.fault
           /\ pair' = PairAfterMalloc(r)
           /\ trip' = TripAfterMalloc(n, r)
           /\ live' = IF r.ret = NULL THEN live
                      ELSE Append(live, [ptr |-> r.ret, req |-> AlignSize(n)])
    /\ callOp' = "malloc"
    /\ callArg' = n
    /\ below' = (below /\ RequestBelowCapacity(live, n))
    /\ invalidated' = {}
    /\ UNCHANGED <<free_list, order>>

Free(p) ==
    /\ LET r == FreeResult(heap, free_list, p)
       IN  /\ heap' = r.heap
           /\ written' = r.written
           /\ fault' = r.fault
    /\ live' = RemovePtr(live, p)
    /\ order' = IF p = NULL THEN order
                ELSE IF p # live[Len(live)].ptr THEN "other"
                ELSE IF order = "none" THEN "lifo" ELSE order
    /\ callOp' = "free"
    /\ callArg' = p
    /\ callRet' = NULL
    /\ invalidated' = {}
    /\ pair' = PairAfterFree(p)
    /\ trip' = TripAfterFree(p)
    /\ UNCHANGED <<free_list, below>>

\* free of a pointer into heap_area before init_heap has run: there is no
\* chain yet, the flag is written into bytes that are no header of it.
StrayPtrs == {HEADER_SIZE, 16048}

FreeBeforeInit(p) ==
    /\ free_list = NULL
    /\ LET r == FreeResult(heap, free_list, p)
       IN  /\ heap' = r.heap
           /\ written' = r.written
           /\ fault' = r.fault
    /\ callOp' = "free"
    /\ callArg' = p
    /\ callRet' = NULL
    /\ invalidated' = {}
    /\ pair' = PairOff
    /\ trip' = TripOff
    /\ UNCHANGED <<free_list, live, order, below>>

Next ==
    \/ InitHeap
    \/ \E n \in Sizes : Malloc(n)
    \/ \E p \in LivePtrs \cup {NULL} : Free(p)
    \/ \E p \in StrayPtrs : FreeBeforeInit(p)

Spec == Init /\ [][Next]_vars

----------------------------------------------------------------------------
\* The chain as the claims see it: the headers reached from free_list by next.

RECURSIVE ChainFrom(_, _, _)
ChainFrom(hp, a, fuel) ==
    IF a = NULL \/ fuel = 0 \/ a \notin DOMAIN hp
    THEN <<>>
    ELSE <<a>> \o ChainFrom(hp, hp[a].next, fuel - 1)

Chain == ChainFrom(heap, free_list, Cardinality(DOMAIN heap) + 1)

ChainSet == {Chain[i] : i \in 1..Len(Chain)}

BlockEnd(a) == a + HEADER_SIZE + heap[a].size

RECURSIVE SumBlocks(_)
SumBlocks(s) ==
    IF s = <<>> THEN 0
    ELSE HEADER_SIZE + heap[Head(s)].size + SumBlocks(Tail(s))

\* [a, a + la) and [b, b + lb) have a byte in common.
Overlap(a, la, b, lb) == la > 0 /\ lb > 0 /\ a < b + lb /\ b < a + la

\* The payload of the live allocation live[i].
PayloadAt(i) == live[i].ptr

PayloadLen(i) == heap[live[i].ptr - HEADER_SIZE].size

----------------------------------------------------------------------------
\* C1: a live pointer is the payload of an allocated node of the chain, lies
\* inside the arena, and its payload [p, p + size) shares no byte with another
\* live payload, with the header of any chain node, or with any header the
\* last call wrote.
ExclusiveOwnership ==
    \A i \in 1..Len(live) :
        LET b == live[i].ptr - HEADER_SIZE
        IN  /\ b \in ChainSet
            /\ heap[b].free = 0
            /\ PayloadAt(i) + PayloadLen(i) <= HEAP_SIZE
            /\ \A j \in 1..Len(live) :
                 j # i => ~Overlap(PayloadAt(i), PayloadLen(i),
                                   PayloadAt(j), PayloadLen(j))
            /\ \A a \in ChainSet :
                 ~Overlap(PayloadAt(i), PayloadLen(i), a, HEADER_SIZE)
            /\ \A k \in 1..Len(written) :
                 ~Overlap(PayloadAt(i), PayloadLen(i), written[k], HEADER_SIZE)

\* Two live payloads of positive size, the later one just carved by a split.
ExclusiveOwnershipWitness ==
    /\ callOp = "malloc"
    /\ Len(written) = 2
    /\ Len(live) = 2
    /\ PayloadLen(1) > 0
    /\ PayloadLen(2) > 0

\* C2 (as claimed): a successful malloc(n) has rounded n up to the least
\* multiple of 8 that is >= n, and the block it returns has at least n usable
\* bytes, for every n of size_t.
RoundsUpAndLargeEnough ==
    (callOp = "malloc" /\ callRet # NULL) =>
        /\ AlignSize(callArg) % 8 = 0
        /\ ULE(callArg, AlignSize(callArg))
        /\ ULE(callArg, heap[callRet - HEADER_SIZE].size)

\* C3: once initialized, the chain nodes tile the arena from offset 0: the
\* first is at 0, every node ends at HEAP_SIZE or where another node starts,
\* no two overlap, and the sum of HEADER_SIZE + size is HEAP_SIZE.
Conservation ==
    free_list # NULL =>
        /\ Len(Chain) >= 1
        /\ Chain[1] = 0
        /\ \A a \in ChainSet : heap[a].size >= 0
        /\ \A a \in ChainSet : BlockEnd(a) = HEAP_SIZE \/ BlockEnd(a) \in ChainSet
        /\ \A a, b \in ChainSet : a # b => (BlockEnd(a) <= b \/ BlockEnd(b) <= a)
        /\ SumBlocks(Chain) = HEAP_SIZE

\* A release that merged, leaving at least two nodes.
ConservationWitness ==
    /\ callOp = "free"
    /\ Len(written) >= 2
    /\ Len(Chain) >= 2

\* C4: every chain node's successor, when there is one, starts exactly at
\* node + HEADER_SIZE + node.size, above the node.
AddressOrder ==
    \A a \in ChainSet :
        heap[a].next # NULL =>
            /\ heap[a].next = a + HEADER_SIZE + heap[a].size
            /\ heap[a].next > a

\* A split inside the chain: the new node has a successor of its own.
AddressOrderWitness ==
    /\ callOp = "malloc"
    /\ Len(written) = 2
    /\ heap[written[1]].next # NULL

\* C5: right after release of a live pointer no node and its successor are
\* both free.
NoAdjacentFree ==
    \A a \in ChainSet :
        ~(heap[a].free = 1 /\ heap[a].next # NULL /\ heap[heap[a].next].free = 1)

MaximalCoalescing ==
    (callOp = "free" /\ callArg # NULL) => NoAdjacentFree

\* The released block lay between two free neighbours: the node before it
\* merged twice.
MaximalCoalescingWitness ==
    /\ callOp = "free"
    /\ Len(written) = 3
    /\ written[2] = written[3]
    /\ written[2] < written[1]

\* The node at a satisfies the search predicate of malloc for aligned size r.
FitsAt(a, r) == heap[a].free = 1 /\ ULE(r, heap[a].size)

\* C6: a successful malloc takes the first node in chain order that is free
\* and has size >= the aligned size: no node before it satisfies that.
FirstFit ==
    [][(callOp' = "malloc" /\ callRet' # NULL) =>
          \E i \in 1..Len(Chain) :
              /\ Chain[i] = callRet' - HEADER_SIZE
              /\ FitsAt(Chain[i], AlignSize(callArg'))
              /\ \A j \in 1..(i - 1) : ~FitsAt(Chain[j], AlignSize(callArg'))]_vars

\* The search passed a free node that is too small and an allocated node.
FirstFitWitness ==
    /\ callOp = "malloc"
    /\ callRet # NULL
    /\ \E a \in ChainSet : a < callRet - HEADER_SIZE /\ heap[a].free = 1
    /\ \E a \in ChainSet : a < callRet - HEADER_SIZE /\ heap[a].free = 0

\* C7: malloc returns NULL exactly when no chain node is free with size >=
\* the aligned size, and then leaves free_list and every header as they were.
FailureIffNoFit ==
    [][callOp' = "malloc" =>
          /\ (callRet' = NULL) <=>
                 ~(\E a \in ChainSet : FitsAt(a, AlignSize(callArg')))
          /\ callRet' = NULL => (heap' = heap /\ free_list' = free_list)]_vars

\* A failed malloc on a chain that has a free node and an allocated one.
FailureIffNoFitWitness ==
    /\ callOp = "malloc"
    /\ callRet = NULL
    /\ \E a \in ChainSet : heap[a].free = 1
    /\ \E a \in ChainSet : heap[a].free = 0

\* C8 (as claimed): after init_heap, while every malloc so far kept the live
\* blocks plus the request below HEAP_SIZE, malloc succeeds.
BelowCapacitySucceeds ==
    (callOp = "malloc" /\ free_list # NULL /\ below) => callRet # NULL

\* C8 (amended): the same for callers that have released, since init_heap,
\* only the most recently allocated live pointer each time.
BelowCapacitySucceedsLifo ==
    (callOp = "malloc" /\ free_list # NULL /\ below /\ order # "other")
        => callRet # NULL

\* A malloc after releases in last-in-first-out order, next to a live block,
\* that left less than HEADER_SIZE + 8 of the arena unrequested.
BelowCapacitySucceedsLifoWitness ==
    /\ callOp = "malloc"
    /\ callRet # NULL
    /\ below
    /\ order = "lifo"
    /\ Len(live) = 2
    /\ Outstanding(live) + HEADER_SIZE + MIN_SPLIT > HEAP_SIZE

RECURSIVE SumFree(_)
SumFree(s) ==
    IF s = <<>> THEN 0
    ELSE (IF heap[Head(s)].free = 1 THEN heap[Head(s)].size ELSE 0)
         + SumFree(Tail(s))

\* C9: a malloc whose aligned size is larger than the size of every free
\* node returns NULL, whatever the free sizes add up to.
NoDefragmentation ==
    [][(/\ callOp' = "malloc"
        /\ \A a \in ChainSet :
             heap[a].free = 1 => ~ULE(AlignSize(callArg'), heap[a].size))
          => callRet' = NULL]_vars

\* A failed malloc although the free nodes together hold the aligned size.
NoDefragmentationWitness ==
    /\ callOp = "malloc"
    /\ callRet = NULL
    /\ AlignSize(callArg) > 0
    /\ SumFree(Chain) >= AlignSize(callArg)

\* C10: free(NULL) writes no header and leaves free_list and every header as
\* they were, initialized or not.
ReleaseNullNoOp ==
    [][(callOp' = "free" /\ callArg' = NULL) =>
          (heap' = heap /\ free_list' = free_list /\ written' = <<>>)]_vars

\* free(NULL) on a chain that has a live block.
ReleaseNullNoOpWitness ==
    /\ callOp = "free"
    /\ callArg = NULL
    /\ free_list # NULL
    /\ Len(live) >= 1

\* C13: right after release of a live pointer, one more run of the coalescing
\* loop from free_list merges nothing and leaves every header as it is.
CoalescingIdempotent ==
    (callOp = "free" /\ callArg # NULL) =>
        Coalesce(heap, free_list, <<>>) =
            [heap |-> heap, written |-> <<>>, fault |-> FALSE]

\* A release that merged once and left free and allocated nodes behind.
CoalescingIdempotentWitness ==
    /\ callOp = "free"
    /\ callArg # NULL
    /\ Len(written) = 2
    /\ Len(Chain) >= 3

\* C14: when the node malloc takes has exactly the aligned size, only its
\* free flag changes: no header is created, its size and next stay.
ExactFit ==
    [][(/\ callOp' = "malloc"
        /\ callRet' # NULL
        /\ heap[callRet' - HEADER_SIZE].size = AlignSize(callArg'))
          => heap' = [heap EXCEPT ![callRet' - HEADER_SIZE].free = 0]]_vars

\* An exact fit of positive size into a hole before an allocated node.
ExactFitWitness ==
    /\ callOp = "malloc"
    /\ callRet # NULL
    /\ Len(written) = 1
    /\ AlignSize(callArg) > 0
    /\ heap[callRet - HEADER_SIZE].size = AlignSize(callArg)
    /\ heap[callRet - HEADER_SIZE].next # NULL

\* The heap after malloc took the node at b for aligned size r, split or not.
TakenHeap(b, r, split) ==
    IF split
    THEN LET nb == b + HEADER_SIZE + r
         IN  (nb :> [size |-> heap[b].size - r - HEADER_SIZE,
                     next |-> heap[b].next,
                     free |-> 1]) @@
             [heap EXCEPT ![b] = [size |-> r, next |-> nb, free |-> 0]]
    ELSE [heap EXCEPT ![b].free = 0]

\* C15 (as claimed): malloc splits the node it takes if and only if the
\* node's size is strictly greater than aligned size + HEADER_SIZE + 8.
SplitIffStrictlyGreater ==
    [][(callOp' = "malloc" /\ callRet' # NULL) =>
          LET b == callRet' - HEADER_SIZE
              r == AlignSize(callArg')
          IN  heap' = TakenHeap(b, r, heap[b].size > r + HEADER_SIZE + MIN_SPLIT)]_vars

\* C15 (amended): malloc splits the node it takes if and only if the node's
\* size is at least aligned size + HEADER_SIZE + 8; the new header is at
\* header end + aligned size with the rest of the size, free, before the old
\* successor, and the taken node has exactly the aligned size.
SplitIffAtLeast ==
    [][(callOp' = "malloc" /\ callRet' # NULL) =>
          LET b == callRet' - HEADER_SIZE
              r == AlignSize(callArg')
          IN  heap' = TakenHeap(b, r, heap[b].size >= r + HEADER_SIZE + MIN_SPLIT)]_vars

\* A split that left a free node of exactly 8 bytes.
SplitIffAtLeastWitness ==
    /\ callOp = "malloc"
    /\ Len(written) = 2
    /\ heap[written[1]].size = MIN_SPLIT
    /\ heap[written[1]].free = 1

\* C16: a call that is not init_heap and does not release p leaves the node
\* of a live pointer p in the chain with its size and allocated as before.
LiveBlockUntouched ==
    [][\A p \in LivePtrs \cap LivePtrs' :
          LET b == p - HEADER_SIZE
          IN  /\ b \in ChainSet /\ b \in ChainSet'
              /\ heap[b].free = 0 /\ heap'[b].free = 0
              /\ heap'[b].size = heap[b].size]_vars

\* A release merged its block into the free node right after it while the
\* block before it stayed live.
LiveBlockUntouchedWitness ==
    /\ callOp = "free"
    /\ callArg # NULL
    /\ Len(written) = 2
    /\ Len(live) = 1
    /\ live[1].ptr < callArg
    /\ heap[live[1].ptr - HEADER_SIZE].size > 0

\* C19: the chain is finite and acyclic: walking next from free_list visits
\* no header twice and ends at NULL; and the coalescing loop of a release
\* merges at most (number of chain nodes before it - 1) times.
NoRepeat(s) == \A i, j \in 1..Len(s) : i # j => s[i] # s[j]

ChainAcyclic ==
    /\ NoRepeat(Chain)
    /\ Len(Chain) <= Cardinality(DOMAIN heap)
    /\ free_list # NULL =>
         (Len(Chain) >= 1 /\ heap[Chain[Len(Chain)]].next = NULL)

\* written' logs the marked block and then one entry for each merge; Chain is
\* the chain the release started from.
ChainTerminates ==
    /\ []ChainAcyclic
    /\ [][(callOp' = "free" /\ callArg' \in LivePtrs) =>
             Len(written') - 1 <= Len(Chain) - 1]_vars

\* A release that merged as often as a chain of three nodes allows.
ChainTerminatesWitness ==
    /\ callOp = "free"
    /\ Len(written) = 3
    /\ Len(Chain) = 1

\* C20: every chain node's size and header offset is a multiple of 8, and so
\* is every pointer malloc returned.
Aligned ==
    /\ \A a \in ChainSet : a % 8 = 0 /\ heap[a].size % 8 = 0
    /\ \A p \in LivePtrs : p % 8 = 0
    /\ (callOp = "malloc" /\ callRet # NULL) => callRet % 8 = 0

\* A request that is no multiple of 8 split a hole inside the chain.
AlignedWitness ==
    /\ callOp = "malloc"
    /\ callArg % 8 # 0
    /\ callArg > 0
    /\ Len(written) = 2
    /\ written[1] % 8 = 0
    /\ Len(Chain) >= 3

\* C17: after init_heap, called in any state, the chain is the one free node
\* at offset 0 of size HEAP_SIZE - HEADER_SIZE without successor, and no
\* pointer that was live before is the payload of an allocated chain node.
InitHeapResets ==
    callOp = "init_heap" =>
        /\ free_list = 0
        /\ Chain = <<0>>
        /\ heap[0] = [size |-> HEAP_SIZE - HEADER_SIZE, next |-> NULL, free |-> 1]
        /\ \A p \in invalidated :
             ~(p - HEADER_SIZE \in ChainSet /\ heap[p - HEADER_SIZE].free = 0)

\* init_heap called again with two allocations outstanding.
InitHeapResetsWitness ==
    /\ callOp = "init_heap"
    /\ Cardinality(invalidated) = 2

\* C18 (as claimed): malloc or free before init_heap dereferences the null
\* free_list and faults.
UninitializedUseFaults ==
    (free_list = NULL /\ callOp \in {"malloc", "free"}) => fault

\* C18 (amended): malloc or free before init_heap dereferences no null
\* pointer: malloc returns NULL and writes nothing, free builds no chain, and
\* free_list stays NULL.
UninitializedUseReturns ==
    (free_list = NULL /\ callOp \in {"malloc", "free"}) =>
        /\ ~fault
        /\ heap = <<>>
        /\ callRet = NULL
        /\ callOp = "malloc" => written = <<>>
        /\ (callOp = "free" /\ callArg = NULL) => written = <<>>

\* malloc of a positive size before init_heap.
UninitializedUseReturnsWitness ==
    /\ free_list = NULL
    /\ callOp = "malloc"
    /\ callArg > 0
    /\ callRet = NULL

\* The chain nodes that are free.
FreeNodes == {a \in ChainSet : heap[a].free = 1}

\* C11 (as claimed): after init_heap, malloc, malloc and the release of both
\* pointers the second block's node follows the first's, and the chain has
\* exactly one free node, at the first block's address, of size
\* sizeA + HEADER_SIZE + sizeB.
PairMergesToSum ==
    /\ pair.stage = 2 => heap[pair.a - HEADER_SIZE].next = pair.b - HEADER_SIZE
    /\ pair.stage = 4 =>
         /\ FreeNodes = {pair.a - HEADER_SIZE}
         /\ heap[pair.a - HEADER_SIZE].size =
                pair.asize + HEADER_SIZE + pair.bsize

\* C11 (amended): the one free node also takes in the free node that
\* followed the second block, with its header, when there was one, so that
\* both release orders end in the chain of init_heap.
PairMergesWithRest ==
    /\ pair.stage = 2 => heap[pair.a - HEADER_SIZE].next = pair.b - HEADER_SIZE
    /\ pair.stage = 4 =>
         /\ FreeNodes = {pair.a - HEADER_SIZE}
         /\ heap[pair.a - HEADER_SIZE].size =
                pair.asize + HEADER_SIZE + pair.bsize
                + (IF pair.rest = NULL THEN 0 ELSE HEADER_SIZE + pair.rest)
         /\ heap = (0 :> [size |-> HEAP_SIZE - HEADER_SIZE, next |-> NULL,
                          free |-> 1])

\* Two blocks of positive size released first block first, a free node
\* after them.
PairMergesWithRestWitness ==
    /\ pair.stage = 4
    /\ pair.first = pair.a
    /\ pair.asize > 0
    /\ pair.bsize > 0
    /\ pair.rest # NULL

\* C12: the release of the pointer a successful malloc(n) returned, with
\* nothing but failing malloc calls in between, restores every header to what
\* it was before that malloc, and the next malloc(n) returns the same pointer.
RoundTrip ==
    /\ trip.stage = "back" => heap = trip.pre
    /\ trip.stage = "again" => (callOp = "malloc" /\ callRet = trip.ptr)

\* The pointer came back from a chain of three or more nodes, a failing
\* malloc in between.
RoundTripWitness ==
    /\ trip.stage = "again"
    /\ trip.failed
    /\ Cardinality(DOMAIN trip.pre) >= 3
    /\ Len(live) = 2

====
